---------------------------- MODULE Spec2Model ----------------------------
(***************************************************************************)
(* A model of src-tauri/src/core/file.rs of forskscope: the content        *)
(* resolver (filepaths_content), the charset decoder (textfile_content),   *)
(* the directory lister (list_dir) and the two size formatters             *)
(* (comma_separated_number, human_readable_size).                          *)
(*                                                                         *)
(* Conventions.                                                            *)
(*   - A u64 is a record [hi, lo] standing for hi * 2^20 + lo, lo < 2^20:  *)
(*     1024^4 does not fit TLC's 32-bit integers, and the TB branch of     *)
(*     human_readable_size has to be reachable.                            *)
(*   - A formatted number is a sequence of one-character strings.          *)
(*   - A file's bytes are a sequence of 0..255; the text of a ReadContent  *)
(*     and a file name are sequences of Unicode code points.               *)
(*   - A call that unwinds (expect / unwrap on an Err) yields              *)
(*     [kind |-> "panic"]; a call that returns yields "Ok" or "Err".       *)
(***************************************************************************)
EXTENDS Integers, Sequences, FiniteSets, TLC

VARIABLES
    arg,      \* the argument(s) of the call under way
    ret,      \* what the call produced: [kind |-> "none" | "Ok" | "Err" | "panic", ...]
    pc,       \* the position of the call: "ready", "loop", "done"
    fs,       \* the file system: path -> what the path names
    cwd,      \* the process's working directory, as std::env::current_dir() answers
    target,   \* list_dir: the local target_dir
    read,     \* list_dir: the entries the directory iterator has still to yield
    dirs,     \* list_dir: the local Vec<String> dirs
    files     \* list_dir: the local Vec<FileAttr> files

vars == <<arg, ret, pc, fs, cwd, target, read, dirs, files>>

\* the state of list_dir while no list_dir is under way
ListDirIdle == cwd = <<>> /\ target = <<>> /\ read = <<>> /\ dirs = <<>> /\ files = <<>>

NoRet == [kind |-> "none"]

-----------------------------------------------------------------------------
(* Bounds of the model.                                                    *)

\* comma_separated_number is applied to every number 0..MaxNum (and to ExtraNums)
MaxNum == 12000
\* human_readable_size: the low limb ranges over 0..MaxLo for each high limb of HiValues
MaxLo == 1100
\* fractional digits f64_to_string keeps (the caller cuts them to two)
FracDigitsKept == 3

-----------------------------------------------------------------------------
(* Sequences.                                                              *)

RECURSIVE Reverse(_)
Reverse(s) == IF s = <<>> THEN <<>> ELSE Append(Reverse(Tail(s)), Head(s))

Take(s, n) == SubSeq(s, 1, IF Len(s) < n THEN Len(s) ELSE n)

RECURSIVE Concat(_)
Concat(ss) == IF ss = <<>> THEN <<>> ELSE Head(ss) \o Concat(Tail(ss))

-----------------------------------------------------------------------------
(* u64 values and their decimal form.                                      *)

UNIT == 1024
LIMB == UNIT * UNIT

U64(h, l) == [hi |-> h, lo |-> l]
Nat64(n) == U64(n \div LIMB, n % LIMB)

Ge(a, b) == a.hi > b.hi \/ (a.hi = b.hi /\ a.lo >= b.lo)

K == U64(0, UNIT)
M == U64(1, 0)
G == U64(UNIT, 0)
T == U64(LIMB, 0)

DigitChars == <<"0", "1", "2", "3", "4", "5", "6", "7", "8", "9">>
Digit(d) == DigitChars[d + 1]
DigitValue(c) == CHOOSE d \in 0..9 : DigitChars[d + 1] = c

\* num / 10 and num % 10 on the two limbs
DivMod10(n) ==
    LET t == (n.hi % 10) * LIMB + n.lo
    IN  [q |-> U64(n.hi \div 10, t \div 10), r |-> t % 10]

\* u64::to_string
RECURSIVE u64_to_string(_)
u64_to_string(n) ==
    IF n.hi = 0 /\ n.lo < 10
    THEN <<Digit(n.lo)>>
    ELSE Append(u64_to_string(DivMod10(n).q), Digit(DivMod10(n).r))

\* str::parse::<u64>() of a digit string (Horner, on the two limbs)
RECURSIVE parse_u64(_)
parse_u64(s) ==
    IF s = <<>> THEN U64(0, 0)
    ELSE LET p == parse_u64(SubSeq(s, 1, Len(s) - 1))
             l == p.lo * 10 + DigitValue(s[Len(s)])
         IN  U64(p.hi * 10 + l \div LIMB, l % LIMB)

-----------------------------------------------------------------------------
(* comma_separated_number (file.rs 299-311).                               *)

\* the loop `for (i, c) in num_str.chars().rev().enumerate()`, from index i on
RECURSIVE CommaLoop(_, _, _)
CommaLoop(rev, i, acc) ==
    IF i >= Len(rev) THEN acc
    ELSE CommaLoop(rev, i + 1,
                   Append(IF i # 0 /\ i % 3 = 0 THEN Append(acc, ",") ELSE acc,
                          rev[i + 1]))

\* a plausible slip: the digits are not reversed, groups are counted from the left
comma_separated_number_from_left(num) == CommaLoop(u64_to_string(num), 0, <<>>)

comma_separated_number(num) ==
    LET num_str == u64_to_string(num)
        r == CommaLoop(Reverse(num_str), 0, <<>>)
    IN  Reverse(r)

-----------------------------------------------------------------------------
(* human_readable_size (file.rs 314-344).                                  *)

(* `size as f64 / UNIT^k as f64`.  For size < 2^48 the conversion and the   *)
(* division by a power of two are exact, so the quotient is the rational    *)
(* int + (fh * 2^20 + fl) / 2^40.                                           *)
F64From(size) == [int |-> size, fh |-> 0, fl |-> 0]

F64Div(size, unit) ==
    CASE unit = K -> [int |-> U64(size.hi \div UNIT, (size.hi % UNIT) * UNIT + size.lo \div UNIT),
                      fh |-> (size.lo % UNIT) * UNIT, fl |-> 0]
      [] unit = M -> [int |-> U64(0, size.hi), fh |-> size.lo, fl |-> 0]
      [] unit = G -> [int |-> U64(0, size.hi \div UNIT),
                      fh |-> (size.hi % UNIT) * UNIT + size.lo \div UNIT,
                      fl |-> (size.lo % UNIT) * UNIT]
      [] unit = T -> [int |-> U64(0, size.hi \div LIMB), fh |-> size.hi % LIMB, fl |-> size.lo]

\* the decimal expansion of (fh * 2^20 + fl) / 2^40, at most n digits of it
RECURSIVE FracDigits(_, _, _)
FracDigits(fh, fl, n) ==
    IF n = 0 \/ (fh = 0 /\ fl = 0) THEN <<>>
    ELSE LET nl == 10 * fl
             nh == 10 * fh + nl \div LIMB
         IN  <<Digit(nh \div LIMB)>> \o FracDigits(nh % LIMB, nl % LIMB, n - 1)

(* f64::to_string.  Rust prints the shortest decimal that reads back as the *)
(* same f64: an integral value without a point ("1", not "1.0" or "1.00"),  *)
(* any other value with its fractional digits.  For size < 2^48 that        *)
(* decimal agrees with the exact expansion on the first two fractional      *)
(* digits, the only ones the caller keeps; the expansion is cut to          *)
(* FracDigitsKept digits.                                                   *)
f64_to_string(x) ==
    u64_to_string(x.int) \o
        (IF x.fh = 0 /\ x.fl = 0 THEN <<>>
         ELSE <<".">> \o FracDigits(x.fh, x.fl, FracDigitsKept))

\* str::split(".").collect::<Vec<&str>>()
RECURSIVE split_dot(_)
split_dot(s) ==
    IF \A i \in 1..Len(s) : s[i] # "." THEN <<s>>
    ELSE LET p == CHOOSE i \in 1..Len(s) : s[i] = "." /\ \A j \in 1..(i - 1) : s[j] # "."
         IN  <<SubSeq(s, 1, p - 1)>> \o split_dot(SubSeq(s, p + 1, Len(s)))

UnitChars(unit) ==
    CASE unit = "TB" -> <<"T", "B">>
      [] unit = "GB" -> <<"G", "B">>
      [] unit = "MB" -> <<"M", "B">>
      [] unit = "KB" -> <<"K", "B">>
      [] unit = "bytes" -> <<"b", "y", "t", "e", "s">>

\* a plausible slip: the comparisons are strict, so 1024 stays in "bytes"
human_readable_size_strict(size) ==
    LET scaled == IF ~Ge(T, size) THEN <<F64Div(size, T), "TB">>
                  ELSE IF ~Ge(G, size) THEN <<F64Div(size, G), "GB">>
                  ELSE IF ~Ge(M, size) THEN <<F64Div(size, M), "MB">>
                  ELSE IF ~Ge(K, size) THEN <<F64Div(size, K), "KB">>
                  ELSE <<F64From(size), "bytes">>
        size_str_parts == split_dot(f64_to_string(scaled[1]))
        comma_separated_int == comma_separated_number(parse_u64(size_str_parts[1]))
        comma_separated_size ==
            IF 1 < Len(size_str_parts)
            THEN comma_separated_int \o <<".">> \o Take(size_str_parts[2], 2)
            ELSE comma_separated_int
    IN  comma_separated_size \o <<" ">> \o UnitChars(scaled[2])

human_readable_size(size) ==
    LET scaled == IF Ge(size, T) THEN <<F64Div(size, T), "TB">>
                  ELSE IF Ge(size, G) THEN <<F64Div(size, G), "GB">>
                  ELSE IF Ge(size, M) THEN <<F64Div(size, M), "MB">>
                  ELSE IF Ge(size, K) THEN <<F64Div(size, K), "KB">>
                  ELSE <<F64From(size), "bytes">>
        size_str == f64_to_string(scaled[1])
        size_str_parts == split_dot(size_str)
        int == parse_u64(size_str_parts[1])
        comma_separated_int == comma_separated_number(int)
        \* format!("{}.{:.2}", ..): a precision on a &str cuts it to that many chars
        comma_separated_size ==
            IF 1 < Len(size_str_parts)
            THEN comma_separated_int \o <<".">> \o Take(size_str_parts[2], 2)
            ELSE comma_separated_int
    IN  comma_separated_size \o <<" ">> \o UnitChars(scaled[2])

-----------------------------------------------------------------------------
(* The two formatters applied to bounded inputs.                           *)

ExtraNums ==
    { U64(1, 185991),          \* 1234567
      U64(0, 999999), U64(0, 1000000), U64(0, 123456),
      U64(953, 706432),        \* 999999999
      U64(953, 706433),        \* 1000000000
      U64(LIMB, 0),            \* 1024^4
      U64(LIMB * 255, LIMB - 1) }

Numbers == { U64(0, n) : n \in 0..MaxNum } \cup ExtraNums

InitNumber ==
    /\ arg \in Numbers
    /\ ret = NoRet /\ pc = "ready"
    /\ fs = <<>> /\ ListDirIdle

CallCommaSeparatedNumber ==
    /\ pc = "ready"
    /\ ret' = [kind |-> "Ok", value |-> comma_separated_number(arg)]
    /\ pc' = "done"
    /\ UNCHANGED <<arg, fs, cwd, target, read, dirs, files>>

NextNumber == CallCommaSeparatedNumber

SpecNumber == InitNumber /\ [][NextNumber]_vars

HiValues == {0, 1, 2, 3, 5, 1023, UNIT, UNIT + 512, 3 * UNIT, LIMB - 1, LIMB, LIMB + 1,
             2 * LIMB + LIMB \div 2, 200 * LIMB}

LoValues == (0..MaxLo) \cup {1280, 1536, 2048, LIMB \div 2, LIMB \div 4, LIMB - 1}

Sizes == { U64(h, l) : h \in HiValues, l \in LoValues }

InitSize ==
    /\ arg \in Sizes
    /\ ret = NoRet /\ pc = "ready"
    /\ fs = <<>> /\ ListDirIdle

CallHumanReadableSize ==
    /\ pc = "ready"
    /\ ret' = [kind |-> "Ok", value |-> human_readable_size(arg)]
    /\ pc' = "done"
    /\ UNCHANGED <<arg, fs, cwd, target, read, dirs, files>>

NextSize == CallHumanReadableSize

SpecSize == InitSize /\ [][NextSize]_vars

-----------------------------------------------------------------------------
(* Files, ReadContent and results.                                         *)

\* what a path names: a readable regular file, nothing, a file that cannot be
\* opened (permissions), or a directory (it opens, and every read of it fails)
File(b) == [kind |-> "file", bytes |-> b]
Missing == [kind |-> "missing", bytes |-> <<>>]
Denied == [kind |-> "denied", bytes |-> <<>>]
Directory == [kind |-> "dir", bytes |-> <<>>]

\* the file a path names; a path the file system does not hold (the empty path
\* among them) names nothing
Lookup(filesystem, filepath) ==
    IF filepath \in DOMAIN filesystem THEN filesystem[filepath] ELSE Missing

\* File::open(filepath).is_ok()
CanOpen(f) == f.kind \in {"file", "dir"}

Ok(v) == [kind |-> "Ok", value |-> v]
Panic(msg) == [kind |-> "panic", value |-> msg]

\* types::ReadContent, and ReadContent::default()
ReadContent(cs, text) == [charset |-> cs, content |-> text]
ReadContentDefault == ReadContent("", <<>>)

UTF8_CHARSET == "UTF-8"
NOT_TEXTFILE_CHARSET == "(bytes array)"

-----------------------------------------------------------------------------
(* UTF-8 and the sniffed encodings.                                        *)

IsCont(b) == 128 <= b /\ b <= 191

\* the length of the well-formed UTF-8 sequence s starts with, 0 if it starts with none
Utf8SeqLen(s) ==
    LET b == s[1]
    IN  IF b < 128 THEN 1
        ELSE IF 194 <= b /\ b <= 223
        THEN IF Len(s) >= 2 /\ IsCont(s[2]) THEN 2 ELSE 0
        ELSE IF 224 <= b /\ b <= 239
        THEN IF /\ Len(s) >= 3 /\ IsCont(s[2]) /\ IsCont(s[3])
                /\ (b = 224 => s[2] >= 160) /\ (b = 237 => s[2] <= 159)
             THEN 3 ELSE 0
        ELSE IF 240 <= b /\ b <= 244
        THEN IF /\ Len(s) >= 4 /\ IsCont(s[2]) /\ IsCont(s[3]) /\ IsCont(s[4])
                /\ (b = 240 => s[2] >= 144) /\ (b = 244 => s[2] <= 143)
             THEN 4 ELSE 0
        ELSE 0

\* the code point of the well-formed sequence of n bytes s starts with
Utf8CodePoint(s, n) ==
    CASE n = 1 -> s[1]
      [] n = 2 -> (s[1] - 192) * 64 + (s[2] - 128)
      [] n = 3 -> (s[1] - 224) * 4096 + (s[2] - 128) * 64 + (s[3] - 128)
      [] n = 4 -> (s[1] - 240) * 262144 + (s[2] - 128) * 4096 + (s[3] - 128) * 64 + (s[4] - 128)

\* std::str::from_utf8: [ok, text], text the code points when ok
RECURSIVE from_utf8(_)
from_utf8(s) ==
    IF s = <<>> THEN [ok |-> TRUE, text |-> <<>>]
    ELSE LET n == Utf8SeqLen(s)
         IN  IF n = 0 THEN [ok |-> FALSE, text |-> <<>>]
             ELSE LET rest == from_utf8(SubSeq(s, n + 1, Len(s)))
                  IN  [ok |-> rest.ok,
                       text |-> IF rest.ok THEN <<Utf8CodePoint(s, n)>> \o rest.text ELSE <<>>]

\* the labels EncodingDetector::guess answers with in the model: the detector is
\* an external crate, its answer is a choice among them
SniffedEncodings == {"windows-1252", "windows-1254"}

\* index-windows-1252 of the Encoding Standard, bytes 0x80..0x9F
Windows1252High ==
    <<8364, 129, 8218, 402, 8222, 8230, 8224, 8225, 710, 8240, 352, 8249, 338, 141, 381, 143,
      144, 8216, 8217, 8220, 8221, 8226, 8211, 8212, 732, 8482, 353, 8250, 339, 157, 382, 376>>

DecodeByte(encoding, b) ==
    IF b < 128 THEN b
    ELSE IF encoding = "windows-1254" /\ b \in {142, 158, 208, 221, 222, 240, 253, 254}
    THEN CASE b = 142 -> 142 [] b = 158 -> 158 [] b = 208 -> 286 [] b = 221 -> 304
           [] b = 222 -> 350 [] b = 240 -> 287 [] b = 253 -> 305 [] b = 254 -> 351
    ELSE IF b < 160 THEN Windows1252High[b - 127]
    ELSE b

\* encoding.decode(&buffer): a single-byte encoding decodes byte by byte
Decode(encoding, buffer) == [i \in 1..Len(buffer) |-> DecodeByte(encoding, buffer[i])]

-----------------------------------------------------------------------------
(* is_textfile (file.rs 174-184) and textfile_content (file.rs 187-229).   *)

NL == 10
SPACE == 32

\* what reader.read_line appends: the bytes up to and including the first newline
FirstLine(bytes) ==
    IF \E i \in 1..Len(bytes) : bytes[i] = NL
    THEN SubSeq(bytes, 1, CHOOSE i \in 1..Len(bytes) :
                               bytes[i] = NL /\ \A j \in 1..(i - 1) : bytes[j] # NL)
    ELSE bytes

\* read_line is Ok iff the read succeeds and the line is valid UTF-8
is_textfile(filesystem, filepath) ==
    LET file == Lookup(filesystem, filepath)
    IN  IF CanOpen(file)
        THEN file.kind = "file" /\ from_utf8(FirstLine(file.bytes)).ok
        ELSE FALSE

BYTES_ARRAY_ROW_LENGTH == 16

\* one hex digit of format!("{:02X}") / format!("{:02x}")
HexDigit(d, upper) == IF d < 10 THEN 48 + d ELSE (IF upper THEN 55 ELSE 87) + d

\* format!("{:02X} ", byte)
HexByteSpace(byte) == <<HexDigit(byte \div 16, TRUE), HexDigit(byte % 16, TRUE), SPACE>>

\* buffer.chunks(n)
RECURSIVE chunks(_, _)
chunks(buffer, n) ==
    IF buffer = <<>> THEN <<>>
    ELSE IF Len(buffer) <= n THEN <<buffer>>
    ELSE <<SubSeq(buffer, 1, n)>> \o chunks(SubSeq(buffer, n + 1, Len(buffer)), n)

\* a plausible slip: {:02x}, lowercase digits
BytesGridLowercase(buffer) ==
    LET row(chunk) ==
            Concat([i \in 1..Len(chunk) |->
                       <<HexDigit(chunk[i] \div 16, FALSE), HexDigit(chunk[i] % 16, FALSE), SPACE>>])
                \o <<NL>>
        cs == chunks(buffer, BYTES_ARRAY_ROW_LENGTH)
    IN  Concat([r \in 1..Len(cs) |-> row(cs[r])])

\* the grid of lines 195-201
BytesGrid(buffer) ==
    LET row(chunk) == Concat([i \in 1..Len(chunk) |-> HexByteSpace(chunk[i])]) \o <<NL>>
        cs == chunks(buffer, BYTES_ARRAY_ROW_LENGTH)
    IN  Concat([r \in 1..Len(cs) |-> row(cs[r])])

\* buffer.windows(2).any(|window| window[0] == 0x00)
IsBinary(buffer) == \E w \in 1..(Len(buffer) - 1) : SubSeq(buffer, w, w + 1)[1] = 0

\* guess: what the detector answers for this buffer, if it is asked
textfile_content(filesystem, filepath, guess) ==
    LET file == Lookup(filesystem, filepath)
        buffer == file.bytes
    IN  IF ~CanOpen(file) THEN Panic("failed to open")
        ELSE IF file.kind # "file" THEN Panic("read_to_end")
        ELSE IF IsBinary(buffer)
        THEN Ok(ReadContent(NOT_TEXTFILE_CHARSET, BytesGrid(buffer)))
        ELSE IF from_utf8(buffer).ok
        THEN Ok(ReadContent(UTF8_CHARSET, from_utf8(buffer).text))
        ELSE Ok(ReadContent(guess, Decode(guess, buffer)))

-----------------------------------------------------------------------------
(* textfile_content applied to bounded files.                              *)

\* every byte sequence over TextAlphabet of at most MaxTextLen bytes is a file
MaxTextLen == 3
\* and every patterned buffer of at most MaxBufLen bytes
MaxBufLen == 34

\* NUL, newline, 'A', the two bytes of U+00E9, a byte no UTF-8 text holds
TextAlphabet == {0, 10, 65, 195, 169, 255}

RECURSIVE SeqsUpTo(_, _)
SeqsUpTo(S, n) ==
    IF n = 0 THEN {<<>>}
    ELSE LET shorter == SeqsUpTo(S, n - 1)
         IN  shorter \cup { Append(q, x) : q \in { t \in shorter : Len(t) = n - 1 }, x \in S }

\* n bytes that differ from their neighbours, byte z (if any) a NUL
Patterned(n, z, first) ==
    [i \in 1..n |-> IF i = z THEN 0 ELSE 1 + ((first + 37 * i) % 255)]

Buffers ==
    SeqsUpTo(TextAlphabet, MaxTextLen)
        \cup UNION { { Patterned(n, z, first) : z \in {0, 1, 2, n - 1, n}, first \in {64, 200} } :
                       n \in 1..MaxBufLen }

TextPath == <<"f">>

InitText ==
    /\ fs \in { [p \in {TextPath} |-> f] :
                    f \in { File(b) : b \in Buffers } \cup {Missing, Denied, Directory} }
    /\ arg = TextPath
    /\ ret = NoRet /\ pc = "ready"
    /\ ListDirIdle

CallTextfileContent ==
    /\ pc = "ready"
    /\ \E guess \in SniffedEncodings : ret' = textfile_content(fs, arg, guess)
    /\ pc' = "done"
    /\ UNCHANGED <<arg, fs, cwd, target, read, dirs, files>>

NextText == CallTextfileContent

SpecText == InitText /\ [][NextText]_vars

-----------------------------------------------------------------------------
(* filepaths_content (file.rs 32-55), excel_content (232-254) and          *)
(* binary_content (257-264).                                               *)

\* str::ends_with
ends_with(s, suffix) ==
    Len(suffix) <= Len(s) /\ SubSeq(s, Len(s) - Len(suffix) + 1, Len(s)) = suffix

DotXlsx == <<".", "x", "l", "s", "x">>

\* super::str::bytes_to_hex_dump, not in this file: 16 bytes a line, each byte two
\* uppercase hex digits, the bytes of a line separated by a space, each line
\* ended by a newline
bytes_to_hex_dump(bytes) ==
    LET row(chunk) ==
            Concat([i \in 1..Len(chunk) |->
                       (IF i = 1 THEN <<>> ELSE <<SPACE>>)
                           \o <<HexDigit(chunk[i] \div 16, TRUE), HexDigit(chunk[i] % 16, TRUE)>>])
                \o <<NL>>
        cs == chunks(bytes, 16)
    IN  Concat([r \in 1..Len(cs) |-> row(cs[r])])

binary_content(filesystem, filepath) ==
    LET file == Lookup(filesystem, filepath)
    IN  IF file.kind # "file" THEN Panic("Failed to read file in binary mode")
        ELSE Ok(ReadContent("(binary)", bytes_to_hex_dump(file.bytes)))

\* Vec<String>::join("\n")
RECURSIVE join_nl(_)
join_nl(strs) ==
    IF strs = <<>> THEN <<>>
    ELSE IF Len(strs) = 1 THEN strs[1]
    ELSE strs[1] \o <<NL>> \o join_nl(Tail(strs))

\* an Option<String>: <<>> is None, <<s>> is Some(s)
excel_content(split_unified_diff_content) ==
    LET segment(x) ==
            join_nl(<<x.title>> \o Concat([l \in 1..Len(x.lines) |->
                                              x.lines[l].pos \o x.lines[l].text]))
    IN  ReadContent("(Excel)",
                    Concat([k \in 1..Len(split_unified_diff_content) |->
                               segment(split_unified_diff_content[k])]))

(* Diff::new(old, new) and unified_diff(&diff).split() belong to the crate  *)
(* sheets_diff: what they answer is a choice among a few split diffs, or    *)
(* they unwind (the crate may fail to open a workbook).                     *)
SheetTitle == <<83, 49>>
DiffOutcomes ==
    { [unwinds |-> TRUE, old |-> <<>>, new |-> <<>>],
      [unwinds |-> FALSE, old |-> <<>>, new |-> <<>>],
      [unwinds |-> FALSE,
       old |-> <<[title |-> SheetTitle,
                  lines |-> <<[pos |-> <<<<65, 49>>>>, text |-> <<<<45, 120>>>>]>>]>>,
       new |-> <<[title |-> SheetTitle,
                  lines |-> <<[pos |-> <<<<65, 49>>>>, text |-> <<<<43, 121>>>>],
                              [pos |-> <<>>, text |-> <<<<43, 122>>>>]>>]>>] }

\* vec![a, b] of two calls that may unwind, a evaluated first; with the calls made
Vec2(a, b, calls) ==
    IF a.kind = "panic" THEN [kind |-> "panic", value |-> a.value, trace |-> SubSeq(calls, 1, 1)]
    ELSE IF b.kind = "panic" THEN [kind |-> "panic", value |-> b.value, trace |-> calls]
    ELSE [kind |-> "Ok", value |-> <<a.value, b.value>>, trace |-> calls]

(* The branches of filepaths_content.  A result carries, beside Ok(vec) or  *)
(* the panic, the content readers the call ran, in order (trace): the       *)
(* claims speak of which reader is invoked.                                 *)
TextBoth(filesystem, old, new, guesses) ==
    Vec2(textfile_content(filesystem, old, guesses[1]),
         textfile_content(filesystem, new, guesses[2]),
         <<<<"textfile_content", old>>, <<"textfile_content", new>>>>)

TextOld(filesystem, old, guesses) ==
    Vec2(textfile_content(filesystem, old, guesses[1]), Ok(ReadContentDefault),
         <<<<"textfile_content", old>>>>)

TextNew(filesystem, new, guesses) ==
    Vec2(Ok(ReadContentDefault), textfile_content(filesystem, new, guesses[2]),
         <<<<"textfile_content", new>>>>)

Spreadsheet(old, new, diff) ==
    IF diff.unwinds
    THEN [kind |-> "panic", value |-> "sheets_diff", trace |-> <<<<"Diff::new", old, new>>>>]
    ELSE [kind |-> "Ok", value |-> <<excel_content(diff.old), excel_content(diff.new)>>,
          trace |-> <<<<"Diff::new", old, new>>>>]

BinaryBoth(filesystem, old, new) ==
    Vec2(binary_content(filesystem, old), binary_content(filesystem, new),
         <<<<"binary_content", old>>, <<"binary_content", new>>>>)

\* a plausible slip: the two one-sided branches are missing
filepaths_content_without_empty(filesystem, old, new, guesses, diff) ==
    IF is_textfile(filesystem, old) /\ is_textfile(filesystem, new)
    THEN TextBoth(filesystem, old, new, guesses)
    ELSE IF ends_with(old, DotXlsx) /\ ends_with(new, DotXlsx)
    THEN Spreadsheet(old, new, diff)
    ELSE BinaryBoth(filesystem, old, new)

\* a plausible slip: one ".xlsx" path is enough for the spreadsheet branch
filepaths_content_either_xlsx(filesystem, old, new, guesses, diff) ==
    LET old_is_textfile == is_textfile(filesystem, old)
        new_is_textfile == is_textfile(filesystem, new)
    IN  IF old_is_textfile /\ new_is_textfile THEN TextBoth(filesystem, old, new, guesses)
        ELSE IF old_is_textfile /\ new = <<>> THEN TextOld(filesystem, old, guesses)
        ELSE IF old = <<>> /\ new_is_textfile THEN TextNew(filesystem, new, guesses)
        ELSE IF ends_with(old, DotXlsx) \/ ends_with(new, DotXlsx)
        THEN Spreadsheet(old, new, diff)
        ELSE BinaryBoth(filesystem, old, new)

\* a plausible slip: the suffix tested is ".xls", which no ".xlsx" path ends with
filepaths_content_xls(filesystem, old, new, guesses, diff) ==
    LET old_is_textfile == is_textfile(filesystem, old)
        new_is_textfile == is_textfile(filesystem, new)
    IN  IF old_is_textfile /\ new_is_textfile THEN TextBoth(filesystem, old, new, guesses)
        ELSE IF old_is_textfile /\ new = <<>> THEN TextOld(filesystem, old, guesses)
        ELSE IF old = <<>> /\ new_is_textfile THEN TextNew(filesystem, new, guesses)
        ELSE IF ends_with(old, <<".", "x", "l", "s">>) /\ ends_with(new, <<".", "x", "l", "s">>)
        THEN Spreadsheet(old, new, diff)
        ELSE BinaryBoth(filesystem, old, new)

filepaths_content(filesystem, old, new, guesses, diff) ==
    LET old_is_textfile == is_textfile(filesystem, old)
        new_is_textfile == is_textfile(filesystem, new)
    IN  IF old_is_textfile /\ new_is_textfile THEN TextBoth(filesystem, old, new, guesses)
        ELSE IF old_is_textfile /\ new = <<>> THEN TextOld(filesystem, old, guesses)
        ELSE IF old = <<>> /\ new_is_textfile THEN TextNew(filesystem, new, guesses)
        ELSE IF ends_with(old, DotXlsx) /\ ends_with(new, DotXlsx)
        THEN Spreadsheet(old, new, diff)
        ELSE BinaryBoth(filesystem, old, new)

-----------------------------------------------------------------------------
(* filepaths_content applied to bounded file systems.                      *)

P_a_txt == <<"a", ".", "t", "x", "t">>
P_a_xlsx == <<"a", ".", "x", "l", "s", "x">>
P_b_xlsx == <<"b", ".", "x", "l", "s", "x">>

ContentPaths == {P_a_txt, P_a_xlsx, P_b_xlsx}

\* "", "A\n", a line that is no UTF-8, text with a NUL, a text line and then a byte
\* that is no UTF-8, the first bytes of a zip archive
ContentBuffers ==
    { <<>>, <<65, 10>>, <<255, 10>>, <<65, 0, 66>>, <<65, 10, 255>>, <<80, 75, 3, 4, 255>> }

FileStates == { File(b) : b \in ContentBuffers } \cup {Missing, Denied, Directory}

InitContent ==
    /\ fs \in [ContentPaths -> FileStates]
    /\ arg = <<>> /\ ret = NoRet /\ pc = "ready"
    /\ ListDirIdle

CallFilepathsContent ==
    /\ pc = "ready"
    /\ \E old \in ContentPaths \cup {<<>>}, new \in ContentPaths \cup {<<>>},
          guesses \in SniffedEncodings \X SniffedEncodings, diff \in DiffOutcomes :
           /\ arg' = <<old, new>>
           /\ ret' = filepaths_content(fs, old, new, guesses, diff)
    /\ pc' = "done"
    /\ UNCHANGED <<fs, cwd, target, read, dirs, files>>

NextContent == CallFilepathsContent

SpecContent == InitContent /\ [][NextContent]_vars

-----------------------------------------------------------------------------
(* list_dir (file.rs 58-117) and target_dir (289-296).                     *)
(* Paths and entry names are byte strings, as the OS holds them.            *)

Err(msg) == [kind |-> "Err", value |-> msg]

\* the bytes from the head of s that one U+FFFD replaces: the longest prefix of s
\* that starts a well-formed sequence and is not one (s does not start with one)
Utf8InvalidLen(s) ==
    LET b == s[1]
        second_ok ==
            /\ Len(s) >= 2 /\ IsCont(s[2])
            /\ (b = 224 => s[2] >= 160) /\ (b = 237 => s[2] <= 159)
            /\ (b = 240 => s[2] >= 144) /\ (b = 244 => s[2] <= 143)
    IN  IF 224 <= b /\ b <= 244 /\ second_ok
        THEN IF b >= 240 /\ Len(s) >= 3 /\ IsCont(s[3]) THEN 3 ELSE 2
        ELSE 1

\* OsStr::to_string_lossy(): the text, U+FFFD for what is no UTF-8
RECURSIVE to_string_lossy(_)
to_string_lossy(s) ==
    IF s = <<>> THEN <<>>
    ELSE LET n == Utf8SeqLen(s)
         IN  IF n > 0
             THEN <<Utf8CodePoint(s, n)>> \o to_string_lossy(SubSeq(s, n + 1, Len(s)))
             ELSE <<65533>> \o to_string_lossy(SubSeq(s, Utf8InvalidLen(s) + 1, Len(s)))

\* the order of String: that of the UTF-8 bytes, which is that of the code points
RECURSIVE StrLess(_, _)
StrLess(a, b) ==
    IF b = <<>> THEN FALSE
    ELSE IF a = <<>> THEN TRUE
    ELSE IF a[1] # b[1] THEN a[1] < b[1]
    ELSE StrLess(Tail(a), Tail(b))

\* the order of FileAttr (core/types.rs, not in this file): by name
FileAttrLess(x, y) == StrLess(x.name, y.name)

\* Vec::sort() is stable: x goes after the elements that are not greater than it
RECURSIVE InsertFile(_, _)
InsertFile(sorted, x) ==
    IF sorted = <<>> THEN <<x>>
    ELSE IF FileAttrLess(x, Head(sorted)) THEN <<x>> \o sorted
    ELSE <<Head(sorted)>> \o InsertFile(Tail(sorted), x)

RECURSIVE InsertDir(_, _)
InsertDir(sorted, x) ==
    IF sorted = <<>> THEN <<x>>
    ELSE IF StrLess(x, Head(sorted)) THEN <<x>> \o sorted
    ELSE <<Head(sorted)>> \o InsertDir(Tail(sorted), x)


\* files.sort()
RECURSIVE SortFiles(_)
SortFiles(v) ==
    IF v = <<>> THEN <<>>
    ELSE InsertFile(SortFiles(SubSeq(v, 1, Len(v) - 1)), v[Len(v)])

\* a plausible slip: dirs is returned in the order read_dir gave
SortDirsMissing(v) == v

\* dirs.sort()
RECURSIVE SortDirs(_)
SortDirs(v) ==
    IF v = <<>> THEN <<>>
    ELSE InsertDir(SortDirs(SubSeq(v, 1, Len(v) - 1)), v[Len(v)])

\* what a path names, for list_dir: a directory with its entries in the order
\* read_dir yields them, a directory that cannot be opened, a file, nothing
Dir(entries) == [kind |-> "dir", entries |-> entries]
DirDenied == [kind |-> "dir_denied", entries |-> <<>>]
NotDir == [kind |-> "file", entries |-> <<>>]
NoNode == [kind |-> "missing", entries |-> <<>>]

P_d == <<47, 100>>                       \* "/d"
P_alias == <<47, 100, 47, 46, 47>>       \* "/d/./", another name of /d
P_f == <<47, 102>>                       \* "/f", a regular file
P_locked == <<47, 108>>                  \* "/l", a directory that cannot be read
P_nope == <<47, 110>>                    \* "/n", nothing
P_odd == <<47, 255>>                     \* a directory whose name is no UTF-8

\* Path::canonicalize(): an absolute path without "." components, if the path names something
canonicalize(filesystem, path) ==
    LET resolved == IF path = P_alias THEN P_d ELSE path
    IN  IF resolved \in DOMAIN filesystem /\ filesystem[resolved].kind # "missing"
        THEN Ok(resolved)
        ELSE Err("No such file or directory")

\* os_path_buf, the build for a target that is not Windows
os_path_buf(path_buf) == path_buf

\* env is what std::env::current_dir() answers, Ok(path) or Err
target_dir(filesystem, env, current_dir) ==
    IF current_dir = <<>>
    THEN IF env.kind = "Ok" THEN Ok(os_path_buf(env.value))
         ELSE Panic("Failed to get current directory")
    ELSE LET c == canonicalize(filesystem, current_dir)
         IN  IF c.kind = "Ok" THEN Ok(os_path_buf(c.value)) ELSE c

\* std::fs::read_dir
read_dir(filesystem, path) ==
    IF filesystem[path].kind = "dir" THEN Ok(filesystem[path].entries)
    ELSE Err("Invalid path")

\* chrono's Local.timestamp_nanos(..).format("%Y-%m-%d %H:%M:%S"), kept as the instant
LocalFormat(secs) == <<"local", secs>>

BytesSuffix == <<" ", "b", "y", "t", "e", "s">>

\* the FileAttr of lines 91-99; bco is what binary_comparison_only answers
FileAttr(name, len, secs, bco) ==
    [name |-> name,
     bytes_size |-> comma_separated_number(len) \o BytesSuffix,
     human_readable_size |-> human_readable_size(len),
     last_modified |-> LocalFormat(secs),
     binary_comparison_only |-> bco]

(* A directory entry as the iterator yields it: yields is whether the item  *)
(* is Ok(dir_entry); meta whether dir_entry.metadata() is Ok; modified      *)
(* whether metadata.modified() is Ok and secs the time it gives, in seconds *)
(* since the epoch (negative: before it).                                   *)
Entry(name, yields, meta, is_dir, modified, secs, len) ==
    [name |-> name, yields |-> yields, meta |-> meta, is_dir |-> is_dir,
     modified |-> modified, secs |-> secs, len |-> len]

\* the first statements of list_dir, up to the loop (lines 59-72)
ListDirStart ==
    /\ pc = "ready"
    /\ \E current_dir \in {<<>>, P_d, P_alias, P_f, P_locked, P_nope, P_odd} :
           LET t == target_dir(fs, cwd, current_dir)
               r == read_dir(fs, t.value)
           IN  /\ arg' = current_dir
               /\ IF t.kind = "panic"
                  THEN ret' = t /\ pc' = "done" /\ UNCHANGED <<target, read>>
                  ELSE IF t.kind = "Err"
                  THEN ret' = Err(t.value) /\ pc' = "done" /\ UNCHANGED <<target, read>>
                  ELSE IF r.kind = "Err"
                  THEN ret' = r /\ pc' = "done" /\ target' = t.value /\ UNCHANGED read
                  ELSE ret' = ret /\ pc' = "loop" /\ target' = t.value /\ read' = r.value
    /\ dirs' = <<>> /\ files' = <<>>
    /\ UNCHANGED <<fs, cwd>>

\* one turn of `for x in read` (lines 73-107)
ListDirEntry ==
    /\ pc = "loop" /\ read # <<>>
    /\ LET x == Head(read)
           name == to_string_lossy(x.name)
       IN  /\ read' = Tail(read)
           /\ IF ~x.yields \/ ~x.meta
              THEN UNCHANGED <<dirs, files, ret, pc>>
              ELSE IF x.is_dir
              THEN dirs' = Append(dirs, name) /\ UNCHANGED <<files, ret, pc>>
              ELSE IF ~x.modified
              THEN ret' = Panic("modified().unwrap()") /\ pc' = "done"
                   /\ UNCHANGED <<dirs, files>>
              ELSE IF x.secs < 0
              THEN ret' = Panic("duration_since(UNIX_EPOCH).unwrap()") /\ pc' = "done"
                   /\ UNCHANGED <<dirs, files>>
              ELSE /\ \E bco \in BOOLEAN :
                          files' = Append(files, FileAttr(name, x.len, x.secs, bco))
                   /\ UNCHANGED <<dirs, ret, pc>>
    /\ UNCHANGED <<arg, fs, cwd, target>>

\* the end of list_dir (lines 109-116)
ListDirReturn ==
    /\ pc = "loop" /\ read = <<>>
    /\ dirs' = SortDirs(dirs)
    /\ files' = SortFiles(files)
    /\ ret' = Ok([current_dir |-> to_string_lossy(target),
                  dirs |-> dirs', files |-> files'])
    /\ pc' = "done"
    /\ UNCHANGED <<arg, fs, cwd, target, read>>

-----------------------------------------------------------------------------
(* list_dir applied to bounded directories.                                *)

\* a directory holds at most MaxEntries entries
MaxEntries == 3

\* the entries a directory is made of: names "a", "b", "B", "ab", two names that
\* are no UTF-8, and an item the iterator fails on
EntryPool ==
    { Entry(<<97>>, TRUE, TRUE, TRUE, TRUE, 0, U64(0, 0)),
      Entry(<<98>>, TRUE, TRUE, FALSE, TRUE, 1700000000, U64(0, 1536)),
      Entry(<<66>>, TRUE, TRUE, FALSE, TRUE, 0, U64(3, 0)),
      Entry(<<97, 98>>, TRUE, TRUE, TRUE, TRUE, 0, U64(0, 0)),
      Entry(<<255>>, TRUE, TRUE, FALSE, TRUE, 1, U64(0, 1024)),
      Entry(<<254>>, TRUE, TRUE, TRUE, TRUE, 0, U64(0, 0)),
      Entry(<<99>>, TRUE, FALSE, FALSE, TRUE, 0, U64(0, 0)),
      Entry(<<100>>, TRUE, TRUE, FALSE, TRUE, -86400, U64(0, 7)),
      Entry(<<101>>, TRUE, TRUE, FALSE, FALSE, 0, U64(0, 7)),
      Entry(<<>>, FALSE, FALSE, FALSE, FALSE, 0, U64(0, 0)) }

\* the listings of at most n entries, no entry twice (names are unique in a directory)
RECURSIVE Listings(_)
Listings(n) ==
    IF n = 0 THEN {<<>>}
    ELSE LET shorter == Listings(n - 1)
         IN  shorter \cup
                 UNION { { Append(q, e) : e \in { x \in EntryPool : \A i \in 1..Len(q) : q[i] # x } } :
                         q \in { t \in shorter : Len(t) = n - 1 } }

InitListDir ==
    /\ \E entries \in Listings(MaxEntries) :
           fs = [p \in {P_d, P_f, P_locked, P_nope, P_odd} |->
                    CASE p = P_d -> Dir(entries)
                      [] p = P_odd -> Dir(entries)
                      [] p = P_f -> NotDir
                      [] p = P_locked -> DirDenied
                      [] p = P_nope -> NoNode]
    /\ cwd \in {Ok(P_d), Ok(P_odd), Err("current_dir")}
    /\ arg = <<>> /\ ret = NoRet /\ pc = "ready"
    /\ target = <<>> /\ read = <<>> /\ dirs = <<>> /\ files = <<>>

NextListDir == ListDirStart \/ ListDirEntry \/ ListDirReturn

SpecListDir == InitListDir /\ [][NextListDir]_vars

-----------------------------------------------------------------------------
(* Claims about the formatters.                                            *)

Str_1_234_567 == <<"1", ",", "2", "3", "4", ",", "5", "6", "7">>

RemoveCommas(s) == SelectSeq(s, LAMBDA c : c # ",")

(* C9: comma_separated_number(n) is the decimal digits of n, in order, with *)
(* a comma exactly between the groups of three digits counted from the      *)
(* least-significant digit: without its commas the result is the decimal    *)
(* string of n (and reads back as n), it neither starts nor ends with a     *)
(* comma, a character is a comma exactly when its position counted from the *)
(* right is a multiple of four; 1234567 gives "1,234,567", 12 gives "12",   *)
(* 0 gives "0".                                                             *)
C9_CommaGroups ==
    pc = "done" =>
        LET out == ret.value
        IN  /\ RemoveCommas(out) = u64_to_string(arg)
            /\ parse_u64(RemoveCommas(out)) = arg
            /\ out[1] # "," /\ out[Len(out)] # ","
            /\ \A i \in 1..Len(out) : (out[i] = ",") <=> ((Len(out) - i + 1) % 4 = 0)
            /\ (arg = U64(1, 185991) => out = Str_1_234_567)
            /\ (arg = U64(0, 12) => out = <<"1", "2">>)
            /\ (arg = U64(0, 0) => out = <<"0">>)

C9_Witness ==
    pc = "done" /\ arg = U64(1, 185991) /\ ret.value = Str_1_234_567

\* the unit the claim names for a size: the largest whose threshold is <= size
C4_Unit(size) ==
    IF size.hi >= LIMB THEN "TB"
    ELSE IF size.hi >= UNIT THEN "GB"
    ELSE IF size.hi >= 1 THEN "MB"
    ELSE IF size.lo >= UNIT THEN "KB"
    ELSE "bytes"

\* floor(100 * size / unit), on the limbs
C4_Hundredths(size) ==
    LET l == (100 * size.lo) \div LIMB
    IN  CASE C4_Unit(size) = "TB" ->
                 100 * (size.hi \div LIMB) + (100 * (size.hi % LIMB) + l) \div LIMB
          [] C4_Unit(size) = "GB" -> (100 * size.hi + l) \div UNIT
          [] C4_Unit(size) = "MB" -> 100 * size.hi + l
          [] C4_Unit(size) = "KB" -> (100 * size.lo) \div UNIT
          [] C4_Unit(size) = "bytes" -> 100 * size.lo

\* size is a multiple of unit / d, for d = 1 (an integral quotient) or 2 (one decimal)
C4_Multiple(size, d) ==
    CASE C4_Unit(size) = "TB" -> size.lo = 0 /\ size.hi % (LIMB \div d) = 0
      [] C4_Unit(size) = "GB" -> size.lo = 0 /\ size.hi % (UNIT \div d) = 0
      [] C4_Unit(size) = "MB" -> size.lo % (LIMB \div d) = 0
      [] C4_Unit(size) = "KB" -> size.lo % (UNIT \div d) = 0
      [] C4_Unit(size) = "bytes" -> TRUE

C4_Number(out) == SubSeq(out, 1, Len(out) - Len(UnitChars(C4_Unit(arg))) - 1)

(* C4 as stated: the unit is the largest whose threshold is <= the size and *)
(* the scaled value is rendered with two decimal digits, ".00" for an exact *)
(* multiple of the unit (a byte count has none): 1024 gives "1.00 KB",      *)
(* 1024*1024*3 gives "3.00 MB".                                             *)
C4_TwoDecimals ==
    pc = "done" =>
        LET out == ret.value
            h == C4_Hundredths(arg)
        IN  out = comma_separated_number(Nat64(h \div 100))
                    \o (IF C4_Unit(arg) = "bytes" THEN <<>>
                        ELSE <<".", Digit((h % 100) \div 10), Digit(h % 10)>>)
                    \o <<" ">> \o UnitChars(C4_Unit(arg))

(* C4 amended: the unit is the largest whose threshold is <= the size; the  *)
(* integer part of the scaled value is rendered with thousands separators   *)
(* and is followed, only when the size is not an exact multiple of the      *)
(* unit, by "." and the fractional digits cut (not rounded, not padded) to  *)
(* at most two: 0 gives "0 bytes", 1023 "1,023 bytes", 1024 "1 KB",         *)
(* 1024*1024*3 "3 MB", 1536 "1.5 KB", 1025 "1.00 KB".                       *)
C4_AtMostTwoDecimals ==
    pc = "done" =>
        LET out == ret.value
            h == C4_Hundredths(arg)
        IN  /\ out = comma_separated_number(Nat64(h \div 100))
                       \o (IF C4_Multiple(arg, 1) THEN <<>>
                           ELSE IF C4_Multiple(arg, 2) THEN <<".", Digit((h % 100) \div 10)>>
                           ELSE <<".", Digit((h % 100) \div 10), Digit(h % 10)>>)
                       \o <<" ">> \o UnitChars(C4_Unit(arg))
            /\ (arg = U64(0, 0) => out = <<"0", " ", "b", "y", "t", "e", "s">>)
            /\ (arg = U64(0, 1023) =>
                    out = <<"1", ",", "0", "2", "3", " ", "b", "y", "t", "e", "s">>)
            /\ (arg = U64(0, 1024) => out = <<"1", " ", "K", "B">>)
            /\ (arg = U64(3, 0) => out = <<"3", " ", "M", "B">>)
            /\ (arg = U64(0, 1536) => out = <<"1", ".", "5", " ", "K", "B">>)
            /\ (arg = U64(0, 1025) => out = <<"1", ".", "0", "0", " ", "K", "B">>)

C4_Witness ==
    pc = "done" /\ arg = U64(0, 1024) /\ ret.value = <<"1", " ", "K", "B">>

-----------------------------------------------------------------------------
(* Claims about textfile_content.                                          *)

HasNul(bytes) == \E i \in 1..Len(bytes) : bytes[i] = 0

(* C1: for every file whose bytes hold at least one 0x00, at any position,  *)
(* the last byte and a one-byte file included, textfile_content returns     *)
(* charset "(bytes array)" and the hex rendering of the bytes, never the    *)
(* UTF-8 or the sniffed decoding.                                           *)
C1_AnyNulIsBinary ==
    (pc = "done" /\ fs[arg].kind = "file" /\ HasNul(fs[arg].bytes)) =>
        /\ ret.kind = "Ok"
        /\ ret.value.charset = "(bytes array)"
        /\ ret.value.content = BytesGrid(fs[arg].bytes)

\* "0123456789ABCDEF"
C10_HexChars == <<48, 49, 50, 51, 52, 53, 54, 55, 56, 57, 65, 66, 67, 68, 69, 70>>

C10_BinaryBranch ==
    pc = "done" /\ ret.kind = "Ok" /\ ret.value.charset = "(bytes array)"

\* the number of lines of n bytes, and where line l (from 0) ends
C10_Lines(n) == (n + 15) \div 16
C10_LineEnd(n, l) == IF 16 * (l + 1) < n THEN 16 * (l + 1) ELSE n

(* C10 as stated: the binary branch returns ceil(n/16) lines, each ended by *)
(* a newline, line i holding bytes 16*i .. min(16*i+15, n-1) in order as    *)
(* two uppercase hex digits, a single space between adjacent bytes of a     *)
(* line and none after the last byte of the line.                           *)
C10_SpaceBetweenBytes ==
    C10_BinaryBranch =>
        LET bytes == fs[arg].bytes
            n == Len(bytes)
            line(l) ==
                Concat([j \in 1..(C10_LineEnd(n, l) - 16 * l) |->
                           (IF j = 1 THEN <<>> ELSE <<32>>)
                               \o <<C10_HexChars[bytes[16 * l + j] \div 16 + 1],
                                    C10_HexChars[(bytes[16 * l + j] % 16) + 1]>>])
                    \o <<10>>
        IN  ret.value.content = Concat([l \in 1..C10_Lines(n) |-> line(l - 1)])

(* C10 amended: the binary branch returns ceil(n/16) lines, each ended by a *)
(* newline, line i holding bytes 16*i .. min(16*i+15, n-1) in order, each   *)
(* byte as two uppercase hex digits followed by a single space, the last    *)
(* byte of a line included.                                                 *)
C10_SpaceAfterEachByte ==
    C10_BinaryBranch =>
        LET bytes == fs[arg].bytes
            n == Len(bytes)
            out == ret.value.content
            \* where byte j (from 0) starts: three characters a byte, one newline a full line
            at(j) == 3 * j + j \div 16
        IN  /\ Len(out) = 3 * n + C10_Lines(n)
            /\ Len(SelectSeq(out, LAMBDA c : c = 10)) = C10_Lines(n)
            /\ \A j \in 0..(n - 1) :
                   /\ out[at(j) + 1] = C10_HexChars[bytes[j + 1] \div 16 + 1]
                   /\ out[at(j) + 2] = C10_HexChars[(bytes[j + 1] % 16) + 1]
                   /\ out[at(j) + 3] = 32
            /\ \A l \in 0..(C10_Lines(n) - 1) : out[3 * C10_LineEnd(n, l) + l + 1] = 10

\* a buffer of three lines, the last one short, went through the binary branch
C10_Witness ==
    /\ C10_BinaryBranch
    /\ Len(fs[arg].bytes) = 33
    /\ SubSeq(ret.value.content, 1, 6) = <<48, 48, 32, 56, 66, 32>>
    /\ ret.value.content[49] = 10 /\ Len(ret.value.content) = 102

-----------------------------------------------------------------------------
(* Claims about filepaths_content.                                         *)

Old == arg[1]
New == arg[2]

\* the call ran this reader and no other
OnlyReader(name) ==
    ret.trace # <<>> /\ \A i \in 1..Len(ret.trace) : ret.trace[i][1] = name

BothLabelled(label) ==
    /\ ret.kind = "Ok"
    /\ Len(ret.value) = 2
    /\ ret.value[1].charset = label /\ ret.value[2].charset = label

\* the spreadsheet branch: the diff is invoked and, if it returns, both sides are "(Excel)"
SpreadsheetBranch ==
    /\ ret.trace = <<<<"Diff::new", Old, New>>>>
    /\ (ret.kind = "panic" => ret.value = "sheets_diff")
    /\ (ret.kind # "panic" => BothLabelled("(Excel)"))

(* C2 as stated: whenever old and new both end with ".xlsx",                 *)
(* filepaths_content takes the spreadsheet branch, whatever is_textfile     *)
(* returns for the two paths.                                               *)
C2_XlsxAlwaysSpreadsheet ==
    (pc = "done" /\ ends_with(Old, DotXlsx) /\ ends_with(New, DotXlsx)) => SpreadsheetBranch

(* C2 amended: whenever old and new both end with ".xlsx" and is_textfile   *)
(* does not hold of both, filepaths_content takes the spreadsheet branch:   *)
(* it invokes the external diff and, when that returns, returns two         *)
(* ReadContent values both labelled "(Excel)"; when is_textfile holds of    *)
(* both, the two files are decoded as text and the diff is not invoked.     *)
C2_XlsxUnlessBothText ==
    (pc = "done" /\ ends_with(Old, DotXlsx) /\ ends_with(New, DotXlsx)) =>
        IF is_textfile(fs, Old) /\ is_textfile(fs, New)
        THEN OnlyReader("textfile_content") /\ ret.kind = "Ok"
        ELSE SpreadsheetBranch

\* one path text-like, the other not: the diff ran and both sides are "(Excel)"
C2_Witness ==
    /\ pc = "done" /\ Old = P_a_xlsx /\ New = P_b_xlsx
    /\ is_textfile(fs, Old) /\ ~is_textfile(fs, New)
    /\ BothLabelled("(Excel)")
    /\ ret.value[2].content = <<83, 49, 10, 65, 49, 10, 43, 121, 10, 43, 122>>

(* C3: filepaths_content never panics on the paths it is given: for every   *)
(* pair, a missing path, an unreadable path and ("", "") included, the call *)
(* returns Ok or Err.  (An unwinding of the external diff is left aside.)   *)
C3_NeverPanics ==
    pc = "done" =>
        \/ ret.kind \in {"Ok", "Err"}
        \/ ret.kind = "panic" /\ ret.value = "sheets_diff"

(* C5: for every text-like path p, filepaths_content(p, "") returns         *)
(* Ok([textfile_content(p), ReadContent::default()]) and                    *)
(* filepaths_content("", p) the mirrored vector; no content reader is run   *)
(* on the empty path.                                                       *)
C5_OneSided ==
    /\ (pc = "done" /\ New = <<>> /\ is_textfile(fs, Old)) =>
           /\ ret.kind = "Ok"
           /\ \E g \in SniffedEncodings :
                  ret.value = <<textfile_content(fs, Old, g).value, ReadContentDefault>>
           /\ ret.trace = <<<<"textfile_content", Old>>>>
    /\ (pc = "done" /\ Old = <<>> /\ is_textfile(fs, New)) =>
           /\ ret.kind = "Ok"
           /\ \E g \in SniffedEncodings :
                  ret.value = <<ReadContentDefault, textfile_content(fs, New, g).value>>
           /\ ret.trace = <<<<"textfile_content", New>>>>

C5_Witness ==
    /\ pc = "done" /\ Old = <<>> /\ New = P_a_txt
    /\ fs[P_a_txt] = File(<<65, 10>>)
    /\ ret.value = <<ReadContent("", <<>>), ReadContent("UTF-8", <<65, 10>>)>>

\* an existing, readable, non-empty file
C6_Regular(p) == Lookup(fs, p).kind = "file" /\ Lookup(fs, p).bytes # <<>>

\* both sides "(binary)" with the hex dump of each file, only binary_content ran
C6_BinaryFallback ==
    /\ BothLabelled("(binary)")
    /\ ret.value[1].content = bytes_to_hex_dump(fs[Old].bytes)
    /\ ret.value[2].content = bytes_to_hex_dump(fs[New].bytes)
    /\ OnlyReader("binary_content")

\* p is text-like and q a ".xlsx" that is not
C6_TextAgainstXlsx(p, q) ==
    is_textfile(fs, p) /\ ~is_textfile(fs, q) /\ ends_with(q, DotXlsx)

\* p is a ".xlsx" and q neither text-like nor a ".xlsx"
C6_XlsxAgainstBinary(p, q) ==
    ends_with(p, DotXlsx) /\ ~is_textfile(fs, q) /\ ~ends_with(q, DotXlsx)

(* C6 as stated: for existing, readable, non-empty paths of heterogeneous   *)
(* kind (one text-like and the other a non-text-like ".xlsx", or one        *)
(* ".xlsx" and the other non-text-like without the extension) both sides    *)
(* come back "(binary)" with the hex dump; neither the text decoder nor the *)
(* diff is invoked.                                                         *)
C6_HeterogeneousIsBinary ==
    (/\ pc = "done" /\ C6_Regular(Old) /\ C6_Regular(New)
     /\ \/ C6_TextAgainstXlsx(Old, New) \/ C6_TextAgainstXlsx(New, Old)
        \/ C6_XlsxAgainstBinary(Old, New) \/ C6_XlsxAgainstBinary(New, Old))
        => C6_BinaryFallback

(* C6 amended: for existing, readable, non-empty paths, one text-like whose *)
(* path does not end with ".xlsx" and the other a non-text-like ".xlsx",    *)
(* or one ".xlsx" and the other non-text-like without the extension, both   *)
(* sides come back "(binary)" with the hex dump of each file; neither the   *)
(* text decoder nor the diff is invoked.  (A text-like ".xlsx" against a    *)
(* non-text-like ".xlsx" is a pair of ".xlsx" paths: it goes to the diff.)  *)
C6_HeterogeneousNamesIsBinary ==
    (/\ pc = "done" /\ C6_Regular(Old) /\ C6_Regular(New)
     /\ \/ C6_TextAgainstXlsx(Old, New) /\ ~ends_with(Old, DotXlsx)
        \/ C6_TextAgainstXlsx(New, Old) /\ ~ends_with(New, DotXlsx)
        \/ C6_XlsxAgainstBinary(Old, New) \/ C6_XlsxAgainstBinary(New, Old))
        => C6_BinaryFallback

\* a text file against a ".xlsx" that is no text
C6_Witness ==
    /\ pc = "done" /\ Old = P_a_txt /\ New = P_a_xlsx
    /\ fs[Old] = File(<<65, 10>>) /\ fs[New] = File(<<80, 75, 3, 4, 255>>)
    /\ ret.kind = "Ok"
    /\ ret.value[1] = ReadContent("(binary)", <<52, 49, 32, 48, 65, 10>>)
    /\ ret.value[2].charset = "(binary)"

-----------------------------------------------------------------------------
(* Claims about list_dir.                                                  *)

ListDirOk == pc = "done" /\ ret.kind = "Ok"

\* the entries of the listed directory, and those whose metadata was read
Listed == fs[target].entries
WithMetadata == { i \in 1..Len(Listed) : Listed[i].yields /\ Listed[i].meta }
ListedName(i) == to_string_lossy(Listed[i].name)

FileNames(v) == [i \in 1..Len(v) |-> v[i].name]
Count(v, x) == Cardinality({ i \in 1..Len(v) : v[i] = x })
Ascending(v) == \A i \in 1..(Len(v) - 1) : ~StrLess(v[i + 1], v[i])
NoCommonName(v, w) == \A i \in 1..Len(v), j \in 1..Len(w) : v[i] # w[j]

(* C7 as stated: whenever list_dir returns Ok, every entry whose metadata   *)
(* was read appears exactly once, in dirs if it is a directory and in files *)
(* otherwise, no name appears in both, dirs and files are ascending by      *)
(* name, and for the empty input current_dir is the working directory.      *)
C7_Partition ==
    ListDirOk =>
        LET d == ret.value.dirs
            f == FileNames(ret.value.files)
        IN  /\ Len(d) + Len(f) = Cardinality(WithMetadata)
            /\ \A i \in WithMetadata :
                   Count(IF Listed[i].is_dir THEN d ELSE f, ListedName(i)) = 1
            /\ NoCommonName(d, f)
            /\ Ascending(d) /\ Ascending(f)
            /\ (arg = <<>> => ret.value.current_dir = to_string_lossy(cwd.value))

(* C7 amended: whenever list_dir returns Ok, every entry whose metadata was *)
(* read appears once, under its lossily converted name, in dirs if it is a  *)
(* directory and in files otherwise, and nothing else appears; dirs and     *)
(* files are ascending by name; no name appears in both unless two entries  *)
(* have names that convert to the same string (which takes names that are   *)
(* no UTF-8); for the empty input current_dir is the working directory.     *)
C7_PartitionOfEntries ==
    ListDirOk =>
        LET d == ret.value.dirs
            f == FileNames(ret.value.files)
            same(i, isdir) ==
                { j \in WithMetadata : Listed[j].is_dir = isdir /\ ListedName(j) = ListedName(i) }
        IN  /\ Len(d) + Len(f) = Cardinality(WithMetadata)
            /\ \A i \in WithMetadata :
                   /\ Count(d, ListedName(i)) = Cardinality(same(i, TRUE))
                   /\ Count(f, ListedName(i)) = Cardinality(same(i, FALSE))
            /\ ((\A i, j \in WithMetadata : i # j => ListedName(i) # ListedName(j))
                    => NoCommonName(d, f))
            /\ Ascending(d) /\ Ascending(f)
            /\ (arg = <<>> => ret.value.current_dir = to_string_lossy(cwd.value))

\* "b", "a" and "B" were read in that order and came back as dirs [a], files [B, b]
C7_Witness ==
    /\ ListDirOk /\ arg = <<>> /\ cwd = Ok(P_d)
    /\ Len(Listed) = 3 /\ Listed[1].name = <<98>> /\ Listed[3].name = <<66>>
    /\ ret.value.current_dir = <<47, 100>>
    /\ ret.value.dirs = <<<<97>>>>
    /\ FileNames(ret.value.files) = <<<<66>>, <<98>>>>
    /\ ret.value.files[1].human_readable_size = <<"3", " ", "M", "B">>

(* C8: once the directory has been opened, no failure on a single entry     *)
(* makes list_dir fail: an entry whose metadata, modification time          *)
(* included, cannot be obtained is skipped and list_dir returns Ok with all *)
(* the other entries; list_dir returns Err only when the target directory   *)
(* cannot be canonicalized or opened.                                       *)
C8_EntryFailureIsSkipped ==
    (pc = "done" /\ target # <<>> /\ fs[target].kind = "dir") =>
        /\ ret.kind = "Ok"
        /\ Len(ret.value.dirs) + Len(ret.value.files) =
               Cardinality({ i \in WithMetadata :
                                Listed[i].is_dir \/ (Listed[i].modified /\ Listed[i].secs >= 0) })

=============================================================================
